---- MODULE Spec2Model ----
(***************************************************************************)
(* StoryBoard AI canvas (src/src/main.rs): the graph held by CanvasState,  *)
(* the pointer/link interaction of StoryBoardApp::update, the dispatch of  *)
(* remote operations and the mpsc channel that brings their outcomes back. *)
(*                                                                         *)
(* One frame of StoryBoardApp::update is the sequence                      *)
(*   sidebar (265-352) -> channel drain (354-391) -> apply_physics (393)   *)
(*   -> central panel: canvas input and node widgets (395-578).            *)
(* The frame runs on one thread; the ehttp callbacks (182-185, 194-197,    *)
(* 206-209, 218-221) run on other threads and touch only the channel, so   *)
(* the frame is cut exactly where a callback can be observed: each         *)
(* try_recv of the drain loop is one step.                                 *)
(*                                                                         *)
(* Node positions, sizes and the camera are f32 values; they are modelled   *)
(* as exact rationals, so the arithmetic below is the real-number reading  *)
(* of the code and f32 rounding is left out.  The graph reads them in one  *)
(* place only, the test node.bounds().contains(world_pos) of the           *)
(* drag-start loop (424).  The specifications that do not follow the       *)
(* pointer (SpecGraph, SpecOps, ...) take the result of that test as an    *)
(* input of the frame, the set hit of nodes under the pointer, because     *)
(* apply_physics moves the nodes between frames; SpecCanvas computes it    *)
(* from the positions.  The forces of apply_physics (225-249) are not      *)
(* computed: the model records which nodes its integration loop writes.    *)
(***************************************************************************)
EXTENDS Integers, Sequences, FiniteSets, TLC

\* ---------------------------------------------------------------- bounds
\* add_node and the linking click stop once next_id reaches MaxNextId
MaxNextId == 7
\* at most MaxOps remote operations are dispatched in a run
MaxOps == 2
\* where the hit test is an input, at most MaxHit nodes are under the pointer
MaxHit == 1
\* SpecDeliver: length of the initial channel content
MaxChan == 2
\* at most MaxInputs frames of a run bring a drag delta or a scroll
MaxInputs == 2
\* SpecPhysics: at most MaxSteps physics steps of a run compute their forces
MaxSteps == 2

\* ------------------------------------------------------------ value sets
\* Option::None of dragging_node and linking_from (node ids start at 1)
None == 0
\* Option::None of a stored result or texture
NoResult == "None"

\* the NodeData variants (16-42) the sidebar offers (276-291)
SidebarKinds == {"Concept", "YouComResearch", "AgnosticAI", "Visual"}

\* response bodies a fetch can come back with
Texts == {"t1", "t2"}
\* "jpg" decodes as an image, "junk" (an error body, server.rs 115/127) does not
ImageBytes == {"jpg", "junk"}

\* image::load_from_memory(&bytes) (370): Ok(image) or Err
load_from_memory(bytes) == IF bytes = "jpg" THEN "tex_jpg" ELSE "Err"

\* ------------------------------------------------------ f32 as rationals
\* a number is <<numerator, denominator>> in lowest terms, denominator > 0
RECURSIVE GCD(_, _)
GCD(a, b) == IF b = 0 THEN a ELSE GCD(b, a % b)
Abs(n) == IF n < 0 THEN -n ELSE n
Norm(n, d) == LET g == GCD(Abs(n), d) IN IF n = 0 THEN <<0, 1>> ELSE <<n \div g, d \div g>>
Num(n) == <<n, 1>>
Frac(n, d) == Norm(n, d)

Add(a, b) ==
    LET g == GCD(a[2], b[2]) IN
      Norm(a[1] * (b[2] \div g) + b[1] * (a[2] \div g), (a[2] \div g) * b[2])
Neg(a) == <<-a[1], a[2]>>
Sub(a, b) == Add(a, Neg(b))
Mul(a, b) ==
    LET g1 == GCD(Abs(a[1]), b[2])
        g2 == GCD(Abs(b[1]), a[2])
    IN Norm((a[1] \div g1) * (b[1] \div g2), (a[2] \div g2) * (b[2] \div g1))
\* division by a positive number (the zoom)
Div(a, b) == Mul(a, <<b[2], b[1]>>)
Leq(a, b) ==
    LET g == GCD(a[2], b[2]) IN a[1] * (b[2] \div g) <= b[1] * (a[2] \div g)
Less(a, b) == ~Leq(b, a)

\* egui::Vec2 / Pos2: <<x, y>>
Vec(x, y) == <<Num(x), Num(y)>>
ZERO == Vec(0, 0)
VAdd(u, v) == <<Add(u[1], v[1]), Add(u[2], v[2])>>
VSub(u, v) == <<Sub(u[1], v[1]), Sub(u[2], v[2])>>
VMul(u, k) == <<Mul(u[1], k), Mul(u[2], k)>>
VDiv(u, k) == <<Div(u[1], k), Div(u[2], k)>>

VARIABLES
    nodes,          \* state.nodes: id -> [kind, result, is_loading, selected]
    position,       \* state.nodes: id -> node.position
    velocity,       \* state.nodes: id -> node.velocity
    camera_offset,  \* state.camera_offset
    camera_zoom,    \* state.camera_zoom
    edges,          \* state.edges: sequence of [id, from, to]
    next_id,        \* state.next_id
    dragging_node,  \* state.dragging_node: None or an id
    linking_from,   \* state.linking_from: None or an id
    http_chan,      \* messages sent on http_tx and not yet received on http_rx
    inflight,       \* ehttp::fetch calls whose callback has not run yet
    pc,             \* position of the UI thread inside update
    drag_active,    \* a drag gesture on the canvas response is in progress
    input,          \* the sidebar click of the running frame, if any; between
                    \* two frames, what the canvas of the last one read
    integrated,     \* the nodes written by apply_physics in the running frame
    canvas_inputs,  \* history: frames so far with a drag delta or a scroll
    next_op,        \* history: number of the next dispatch
    sent,           \* history: the messages in the order they were sent
    applied,        \* history: the messages in the order they were drained
    frame_applied,  \* history: messages drained so far by the running drain loop
    physics_steps,  \* history: physics steps so far whose forces were computed
    fatal           \* an index lookup or an unwrap has met an absent key

vars == <<nodes, position, velocity, camera_offset, camera_zoom, edges, next_id,
          dragging_node, linking_from, http_chan, inflight, pc, drag_active,
          input, integrated, canvas_inputs, next_op, sent, applied, frame_applied,
          physics_steps, fatal>>

\* CanvasState (113-121)
camera == <<camera_offset, camera_zoom>>
graph == <<nodes, position, velocity, camera, edges, next_id, dragging_node,
          linking_from>>
history == <<next_op, sent, applied, frame_applied, canvas_inputs,
            physics_steps>>

\* ----------------------------------------------------------- helpers
Range(s) == {s[i] : i \in 1..Len(s)}

Event(type, id) == [type |-> type, id |-> id]
NoEvent == Event("none", 0)

\* Node::new (86-99) with the NodeData literal of the caller
NodeNew(kind) ==
    [kind |-> kind,
     result |-> IF kind = "FoxitExport" THEN "Ready" ELSE NoResult,
     is_loading |-> FALSE,
     selected |-> FALSE]

\* HashMap::insert / HashMap::remove on state.nodes
Insert(ns, id, n) == [k \in (DOMAIN ns) \cup {id} |-> IF k = id THEN n ELSE ns[k]]
Remove(ns, id) == [k \in (DOMAIN ns) \ {id} |-> ns[k]]

\* HashMap::new / HashMap::clear
EmptyMap == [k \in {} |-> NodeNew("Concept")]
NoPositions == [k \in {} |-> ZERO]

\* setup_demo_scene (157-167): five nodes through add_node, four edges
DemoNodes ==
    [k \in 1..5 |-> NodeNew(CASE k = 1 -> "Concept"
                              [] k = 2 -> "YouComResearch"
                              [] k = 3 -> "AgnosticAI"
                              [] k = 4 -> "Visual"
                              [] k = 5 -> "FoxitExport")]

\* the positions setup_demo_scene gives to add_node (158-162)
DemoPositions ==
    [k \in 1..5 |-> CASE k = 1 -> Vec(-450, 0)
                      [] k = 2 -> Vec(-150, -150)
                      [] k = 3 -> Vec(150, -150)
                      [] k = 4 -> Vec(450, 0)
                      [] k = 5 -> Vec(0, 250)]

\* the size Node::new gives a node (87-90)
Size(kind) == IF kind = "AgnosticAI" THEN Vec(300, 450) ELSE Vec(250, 300)

DemoEdges ==
    << [id |-> 1, from |-> 1, to |-> 2],
       [id |-> 2, from |-> 2, to |-> 3],
       [id |-> 3, from |-> 3, to |-> 4],
       [id |-> 4, from |-> 4, to |-> 5] >>

\* StoryBoardApp::new (145-155): default state, empty channel, demo scene
Init ==
    /\ nodes = DemoNodes
    /\ position = DemoPositions
    /\ velocity = [k \in 1..5 |-> ZERO]
    /\ camera_offset = ZERO
    /\ camera_zoom = Num(1)
    /\ edges = DemoEdges
    /\ next_id = 6
    /\ dragging_node = None
    /\ linking_from = None
    /\ http_chan = << >>
    /\ inflight = {}
    /\ pc = "sidebar"
    /\ drag_active = FALSE
    /\ input = NoEvent
    /\ integrated = {}
    /\ canvas_inputs = 0
    /\ physics_steps = 0
    /\ fatal = FALSE
    /\ next_op = 1
    /\ sent = << >>
    /\ applied = << >>
    /\ frame_applied = 0

\* ------------------------------------------------------ sidebar (265-352)
\* add_node (169-174): the node gets id next_id and next_id advances
add_node(ns, id, kind) == Insert(ns, id, NodeNew(kind))

\* mutant: the retain closure tests one endpoint only
RetainEdges_FromOnly(es, id) == SelectSeq(es, LAMBDA e : e.from # id)

\* edges.retain(|e| e.from != id && e.to != id) (323)
RetainEdges(es, id) == SelectSeq(es, LAMBDA e : e.from # id /\ e.to # id)

\* the sidebar is laid out with no button clicked in this frame
SidebarIdle ==
    /\ pc = "sidebar"
    /\ input' = NoEvent
    /\ pc' = "drain"
    /\ UNCHANGED <<graph, http_chan, inflight, drag_active, integrated,
                   history, fatal>>

\* mutant: the new node takes the lowest id that is free in the map
AddNode_LowestFree(kind) ==
    LET id == CHOOSE k \in 1..next_id :
                 k \notin DOMAIN nodes /\ \A j \in 1..(k - 1) : j \in DOMAIN nodes
    IN
    /\ pc = "sidebar" /\ ~drag_active
    /\ next_id < MaxNextId
    /\ nodes' = add_node(nodes, id, kind)
    /\ position' = Insert(position, id, camera_offset)
    /\ velocity' = Insert(velocity, id, ZERO)
    /\ next_id' = next_id + 1
    /\ input' = Event("add", id)
    /\ pc' = "drain"
    /\ UNCHANGED <<camera, edges, dragging_node, linking_from, http_chan,
                   inflight, drag_active, integrated, history, fatal>>

\* one of the four "Add New Node" buttons (276-291): the node is placed at
\* the camera offset
AddNode(kind) ==
    /\ pc = "sidebar" /\ ~drag_active
    /\ next_id < MaxNextId
    /\ nodes' = add_node(nodes, next_id, kind)
    /\ position' = Insert(position, next_id, camera_offset)
    /\ velocity' = Insert(velocity, next_id, ZERO)
    /\ next_id' = next_id + 1
    /\ input' = Event("add", next_id)
    /\ pc' = "drain"
    /\ UNCHANGED <<camera, edges, dragging_node, linking_from, http_chan,
                   inflight, drag_active, integrated, history, fatal>>

\* the bin button of node id (314-324)
DeleteNode(id) ==
    /\ pc = "sidebar" /\ ~drag_active
    /\ id \in DOMAIN nodes
    /\ nodes' = Remove(nodes, id)
    /\ position' = Remove(position, id)
    /\ velocity' = Remove(velocity, id)
    /\ edges' = RetainEdges(edges, id)
    /\ input' = Event("delete", id)
    /\ pc' = "drain"
    /\ UNCHANGED <<camera, next_id, dragging_node, linking_from, http_chan,
                   inflight, drag_active, integrated, history, fatal>>

\* "Create Link" (334-338): offered while linking_from is None; the source is
\* a selected node, whichever the map iteration finds first
CreateLink ==
    /\ pc = "sidebar" /\ ~drag_active
    /\ linking_from = None
    /\ \/ \E id \in DOMAIN nodes : nodes[id].selected /\ linking_from' = id
       \/ (\A id \in DOMAIN nodes : ~nodes[id].selected) /\ linking_from' = None
    /\ input' = Event("create_link", 0)
    /\ pc' = "drain"
    /\ UNCHANGED <<nodes, position, velocity, camera, edges, next_id,
                   dragging_node, http_chan, inflight, drag_active, integrated,
                   history, fatal>>

\* "Cancel Linking" (328-331): offered while linking_from is Some
CancelLinking ==
    /\ pc = "sidebar" /\ ~drag_active
    /\ linking_from # None
    /\ linking_from' = None
    /\ input' = Event("cancel_link", 0)
    /\ pc' = "drain"
    /\ UNCHANGED <<nodes, position, velocity, camera, edges, next_id,
                   dragging_node, http_chan, inflight, drag_active, integrated,
                   history, fatal>>

\* mutant: clearing puts the whole state back to CanvasState::default()
ClearCanvas_ResetsNextId ==
    /\ pc = "sidebar" /\ ~drag_active
    /\ nodes' = EmptyMap
    /\ position' = NoPositions
    /\ velocity' = NoPositions
    /\ edges' = << >>
    /\ next_id' = 1
    /\ input' = Event("clear", 0)
    /\ pc' = "drain"
    /\ UNCHANGED <<camera, dragging_node, linking_from, http_chan, inflight,
                   drag_active, integrated, history, fatal>>

\* "Clear Canvas" (343-346)
ClearCanvas ==
    /\ pc = "sidebar" /\ ~drag_active
    /\ nodes' = EmptyMap
    /\ position' = NoPositions
    /\ velocity' = NoPositions
    /\ edges' = << >>
    /\ input' = Event("clear", 0)
    /\ pc' = "drain"
    /\ UNCHANGED <<camera, next_id, dragging_node, linking_from, http_chan,
                   inflight, drag_active, integrated, history, fatal>>

\* the label of node id in the "Active Nodes" list (311-313): the camera is
\* centred on the node's position
FocusNode(id) ==
    /\ pc = "sidebar" /\ ~drag_active
    /\ id \in DOMAIN nodes
    /\ camera_offset' = position[id]
    /\ input' = Event("focus", id)
    /\ pc' = "drain"
    /\ UNCHANGED <<nodes, position, velocity, camera_zoom, edges, next_id,
                   dragging_node, linking_from, http_chan, inflight,
                   drag_active, integrated, history, fatal>>

\* ------------------------------------------------- channel drain (354-391)
\* AppMessage (69-73) with the operation that produced it
Message(variant, id, payload, op) ==
    [variant |-> variant, id |-> id, payload |-> payload, op |-> op]

\* TextResponse arm (356-365) on the node it names
ApplyText(n, text) ==
    IF n.kind \in {"YouComResearch", "AgnosticAI", "FoxitExport"}
    THEN [n EXCEPT !.result = text, !.is_loading = FALSE]
    ELSE n

\* mutant: is_loading is cleared only inside the successful decode
ApplyImage_LoadingInsideDecode(n, bytes) ==
    IF n.kind = "Visual" /\ load_from_memory(bytes) # "Err"
    THEN [n EXCEPT !.is_loading = FALSE, !.result = load_from_memory(bytes)]
    ELSE n

\* ImageResponse arm (366-378): the texture is replaced only if the bytes decode
ApplyImage(n, bytes) ==
    IF n.kind = "Visual"
    THEN IF load_from_memory(bytes) # "Err"
         THEN [n EXCEPT !.is_loading = FALSE, !.result = load_from_memory(bytes)]
         ELSE [n EXCEPT !.is_loading = FALSE]
    ELSE n

\* mutant: the Error arm also resets the stored result
ApplyError_ClearsResult(n) ==
    IF n.kind \in {"YouComResearch", "AgnosticAI", "Visual", "FoxitExport"}
    THEN [n EXCEPT !.is_loading = FALSE, !.result = NoResult]
    ELSE n

\* Error arm (379-389)
ApplyError(n) ==
    IF n.kind \in {"YouComResearch", "AgnosticAI", "Visual", "FoxitExport"}
    THEN [n EXCEPT !.is_loading = FALSE]
    ELSE n

\* mutant: the node is looked up with entry(id).or_insert_with(..), so a
\* message for a missing id creates a node
apply_message_Upsert(ns, msg) ==
    IF msg.id \in DOMAIN ns
    THEN [ns EXCEPT ![msg.id] =
            CASE msg.variant = "TextResponse"  -> ApplyText(ns[msg.id], msg.payload)
              [] msg.variant = "ImageResponse" -> ApplyImage(ns[msg.id], msg.payload)
              [] msg.variant = "Error"         -> ApplyError(ns[msg.id])]
    ELSE Insert(ns, msg.id, NodeNew("Concept"))

\* mutant: a received message ends the pending state of every node
apply_message_ClearsAll(ns, msg) ==
    LET cleared == [k \in DOMAIN ns |-> [ns[k] EXCEPT !.is_loading = FALSE]] IN
      IF msg.id \in DOMAIN ns
      THEN [cleared EXCEPT ![msg.id] =
              CASE msg.variant = "TextResponse"  -> ApplyText(cleared[msg.id], msg.payload)
                [] msg.variant = "ImageResponse" -> ApplyImage(cleared[msg.id], msg.payload)
                [] msg.variant = "Error"         -> ApplyError(cleared[msg.id])]
      ELSE cleared

\* the body of the while loop for one received message: nodes.get_mut(&id)
\* guards every arm
apply_message(ns, msg) ==
    IF msg.id \in DOMAIN ns
    THEN [ns EXCEPT ![msg.id] =
            CASE msg.variant = "TextResponse"  -> ApplyText(ns[msg.id], msg.payload)
              [] msg.variant = "ImageResponse" -> ApplyImage(ns[msg.id], msg.payload)
              [] msg.variant = "Error"         -> ApplyError(ns[msg.id])]
    ELSE ns

\* mutant: the receiver hands out the newest message first
try_recv_Newest(chan) ==
    [msg |-> chan[Len(chan)], rest |-> SubSeq(chan, 1, Len(chan) - 1)]

\* http_rx.try_recv() on a non-empty channel: the oldest message and the rest
try_recv(chan) == [msg |-> Head(chan), rest |-> Tail(chan)]

\* try_recv returned Ok(msg): apply it and loop
DrainRecv ==
    /\ pc = "drain"
    /\ http_chan # << >>
    /\ LET r == try_recv(http_chan) IN
         /\ nodes' = apply_message(nodes, r.msg)
         /\ http_chan' = r.rest
         /\ applied' = Append(applied, r.msg)
    /\ frame_applied' = frame_applied + 1
    /\ UNCHANGED <<position, velocity, camera, edges, next_id, dragging_node,
                   linking_from, inflight, pc, drag_active, input, integrated,
                   canvas_inputs, next_op, sent, physics_steps, fatal>>

\* mutant: the loop uses the blocking recv() and leaves only when every fetch
\* has called back
DrainEmpty_Blocking ==
    /\ pc = "drain"
    /\ http_chan = << >>
    /\ inflight = {}
    /\ pc' = "physics"
    /\ frame_applied' = 0
    /\ UNCHANGED <<graph, http_chan, inflight, drag_active, input, integrated,
                   canvas_inputs, next_op, sent, applied, physics_steps,
                   fatal>>

\* try_recv returned Err (nothing queued): the loop ends
DrainEmpty ==
    /\ pc = "drain"
    /\ http_chan = << >>
    /\ pc' = "physics"
    /\ frame_applied' = 0
    /\ UNCHANGED <<graph, http_chan, inflight, drag_active, input, integrated,
                   canvas_inputs, next_op, sent, applied, physics_steps,
                   fatal>>

\* mutant: the edge loop tests the target endpoint only
EdgeLive_ToOnly(e, ns) == e.to \in DOMAIN ns

\* the test of the edge loop (242): both endpoints are in the map
EdgeLive(e, ns) == e.from \in DOMAIN ns /\ e.to \in DOMAIN ns

\* the keys apply_physics reads by index or unwraps: those of node_ids (232,
\* 233, 237, 253) and the endpoints of the edges that pass the test (246, 247)
PhysicsKeys(ns, es) ==
    DOMAIN ns \cup
    UNION {{es[i].from, es[i].to} : i \in {k \in 1..Len(es) : EdgeLive(es[k], ns)}}

\* the integration loop of apply_physics (250-256) writes the velocity and
\* the position of every node except dragging_node
Integrated(ns, dragging) == {id \in DOMAIN ns : dragging # id}

\* apply_physics (224-257): the displacement it gives the integrated nodes is
\* not computed here
ApplyPhysics ==
    /\ pc = "physics"
    /\ integrated' = Integrated(nodes, dragging_node)
    /\ fatal' = (fatal \/ ~(PhysicsKeys(nodes, edges) \subseteq DOMAIN nodes))
    /\ pc' = "canvas"
    /\ UNCHANGED <<graph, http_chan, inflight, drag_active, input, history>>

\* ---------------------------------- apply_physics, computed (224-257)
\* the constants of 225-227 and the literals of 235 and 245
repulsion == Num(6000)
attraction == Frac(2, 100)
damping == Frac(8, 10)
dist_floor == Num(100)
rest_length == Num(400)

RECURSIVE RootIn(_, _, _)
\* the least r in lo..hi with r * r >= n: the square root of a perfect square
RootIn(n, lo, hi) ==
    IF lo >= hi THEN lo
    ELSE LET mid == (lo + hi) \div 2 IN
           IF mid * mid >= n THEN RootIn(n, lo, mid) ELSE RootIn(n, mid + 1, hi)
Root(n) == RootIn(n, 0, 46340)
Square(n) == Root(n) * Root(n) = n

\* v = (g / d) * (x, y) with x and y whole numbers without a common factor;
\* sq is x * x + y * y
Reduced(v) ==
    LET d == (v[1][2] \div GCD(v[1][2], v[2][2])) * v[2][2]
        a == v[1][1] * (d \div v[1][2])
        c == v[2][1] * (d \div v[2][2])
        g == GCD(Abs(a), Abs(c))
    IN IF g = 0 THEN [g |-> 0, d |-> 1, sq |-> 0]
       ELSE [g |-> g, d |-> d,
             sq |-> (a \div g) * (a \div g) + (c \div g) * (c \div g)]
\* Vec2::length: sqrt(x * x + y * y), exact where the sum is the square of a
\* rational (Measurable); the scenes of SpecPhysics keep it so
length(v) == LET r == Reduced(v) IN Norm(r.g * Root(r.sq), r.d)
Measurable(v) == Square(Reduced(v).sq)

\* Vec2::normalized: the vector itself when its length is zero
normalized(v) ==
    LET len == length(v) IN IF Leq(len, Num(0)) THEN v ELSE VDiv(v, len)

\* f32::max
max(a, b) == IF Less(a, b) THEN b ELSE a

\* mutant: the direction is taken from the node's own position
Repulsion_FromOrigin(pos_i, pos_j) ==
    LET delta == VSub(pos_i, pos_j)
        dist == max(length(delta), dist_floor)
    IN VMul(normalized(pos_i), Div(repulsion, Mul(dist, dist)))

\* the force one pass of the inner loop adds to forces[i] (232-237)
Repulsion(pos_i, pos_j) ==
    LET delta == VSub(pos_i, pos_j)
        dist == max(length(delta), dist_floor)
    IN VMul(normalized(delta), Div(repulsion, Mul(dist, dist)))

\* mutant: the spring rests at 300
Spring_ShortRest(p1, p2) ==
    LET delta == VSub(p2, p1)
        dist == length(delta)
    IN VMul(VMul(normalized(delta), Sub(dist, Num(300))), attraction)

\* mutant: delta is taken from n2 to n1
Spring_Reversed(p1, p2) ==
    LET delta == VSub(p1, p2)
        dist == length(delta)
    IN VMul(VMul(normalized(delta), Sub(dist, rest_length)), attraction)

\* the force of one edge from n1 to n2 (243-245): added to forces[from],
\* subtracted from forces[to]
Spring(p1, p2) ==
    LET delta == VSub(p2, p1)
        dist == length(delta)
    IN VMul(VMul(normalized(delta), Sub(dist, rest_length)), attraction)

RECURSIVE RepulsionOn(_, _, _)
\* the repulsion loop (230-239) for node i over the other nodes js
RepulsionOn(i, js, ps) ==
    IF js = {} THEN ZERO
    ELSE LET j == CHOOSE k \in js : TRUE IN
           VAdd(Repulsion(ps[i], ps[j]), RepulsionOn(i, js \ {j}, ps))

RECURSIVE EdgeForces(_, _, _, _)
\* the edge loop (241-249) from edge k on: an edge with an absent endpoint
\* is skipped
EdgeForces(f, es, ps, k) ==
    IF k > Len(es) THEN f
    ELSE LET e == es[k] IN
           IF EdgeLive(e, ps)
           THEN LET force == Spring(ps[e.from], ps[e.to])
                    f1 == [f EXCEPT ![e.from] = VAdd(@, force)]
                    f2 == [f1 EXCEPT ![e.to] = VSub(@, force)]
                IN EdgeForces(f2, es, ps, k + 1)
           ELSE EdgeForces(f, es, ps, k + 1)

\* forces after both loops (228-249)
Forces(ps, es) ==
    EdgeForces([i \in DOMAIN ps |-> RepulsionOn(i, DOMAIN ps \ {i}, ps)], es, ps, 1)

\* HashMap restricted to the keys other than id
Without(m, id) == [k \in DOMAIN m \ {id} |-> m[k]]

\* mutant: the drag target is left out of the force loops as well
apply_physics_TargetExertsNothing(ps, vs, es, dragging) ==
    LET forces == Forces(Without(ps, dragging), es)
        v == [id \in DOMAIN ps |->
                IF dragging = id THEN vs[id]
                ELSE VMul(VAdd(vs[id], forces[id]), damping)]
    IN [velocity |-> v,
        position |-> [id \in DOMAIN ps |->
                        IF dragging = id THEN ps[id] ELSE VAdd(ps[id], v[id])]]

\* apply_physics (224-257): the velocity and the position of every node but
\* the drag target are integrated from the forces
apply_physics(ps, vs, es, dragging) ==
    LET forces == Forces(ps, es)
        v == [id \in DOMAIN ps |->
                IF dragging = id THEN vs[id]
                ELSE VMul(VAdd(vs[id], forces[id]), damping)]
    IN [velocity |-> v,
        position |-> [id \in DOMAIN ps |->
                        IF dragging = id THEN ps[id] ELSE VAdd(ps[id], v[id])]]

\* every pair of nodes is nearer than the distance floor, where the
\* repulsion does not divide by the squared distance
AllNear(ps) ==
    \A i, j \in DOMAIN ps : Less(length(VSub(ps[i], ps[j])), dist_floor)

\* the numbers of the step stay inside TLC's integers: a scene with a pair
\* beyond the floor is stepped once
Computable == physics_steps = 0 \/ AllNear(position)

\* apply_physics (393) with its forces computed
PhysicsStep ==
    /\ pc = "physics"
    /\ physics_steps < MaxSteps
    /\ Computable
    /\ LET r == apply_physics(position, velocity, edges, dragging_node) IN
         /\ position' = r.position
         /\ velocity' = r.velocity
    /\ integrated' = Integrated(nodes, dragging_node)
    /\ fatal' = (fatal \/ ~(PhysicsKeys(nodes, edges) \subseteq DOMAIN nodes))
    /\ physics_steps' = physics_steps + 1
    /\ pc' = "canvas"
    /\ UNCHANGED <<nodes, camera, edges, next_id, dragging_node, linking_from,
                   http_chan, inflight, drag_active, input, next_op, sent,
                   applied, frame_applied, canvas_inputs>>

\* --------------------------------------- background fetches (176-222)
\* the callback got Ok(response): it sends one message (183, 195, 207, 219)
FetchOk(f, body) ==
    /\ f \in inflight
    /\ body \in (IF f.variant = "ImageResponse" THEN ImageBytes ELSE Texts)
    /\ inflight' = inflight \ {f}
    /\ http_chan' = Append(http_chan, Message(f.variant, f.node, body, f.op))
    /\ sent' = Append(sent, Message(f.variant, f.node, body, f.op))
    /\ UNCHANGED <<graph, pc, drag_active, input, integrated, canvas_inputs,
                   next_op, applied, frame_applied, physics_steps, fatal>>

\* the callback got Err: "if let Ok(response) = result" is skipped, nothing is sent
FetchErr(f) ==
    /\ f \in inflight
    /\ inflight' = inflight \ {f}
    /\ UNCHANGED <<graph, http_chan, pc, drag_active, input, integrated,
                   history, fatal>>

\* ----------------------------------------- central panel (395-578)
\* the frame's user event reaches the canvas or a node widget only if the
\* sidebar did not take it
Free == pc = "canvas" /\ input = NoEvent

\* end of update: the next frame is requested unconditionally (582)
EndFrame == pc' = "sidebar" /\ integrated' = {}

\* canvas_rect.center() (398, 403): a 1200x800 window with the side panel
center == Vec(700, 400)

\* mutant: the relative position is scaled back but the offset is not added
screen_to_world_NoOffset(pos, offset, zoom) == VDiv(VSub(pos, center), zoom)

\* the closures of 403 and 404 over the locals camera_offset and camera_zoom
world_to_screen(pos, offset, zoom) == VAdd(center, VMul(VSub(pos, offset), zoom))
screen_to_world(pos, offset, zoom) == VAdd(VDiv(VSub(pos, center), zoom), offset)

\* Node::bounds (101-103) and Rect::contains, which includes the border
bounds(pos, kind) == [min |-> pos, max |-> VAdd(pos, Size(kind))]
\* mutant: only the horizontal extent is tested
contains_XOnly(rect, p) == Leq(rect.min[1], p[1]) /\ Leq(p[1], rect.max[1])
contains(rect, p) ==
    /\ Leq(rect.min[1], p[1]) /\ Leq(p[1], rect.max[1])
    /\ Leq(rect.min[2], p[2]) /\ Leq(p[2], rect.max[2])

\* the nodes the test of 424 finds at world_pos
NodesAt(ns, ps, world_pos) ==
    {k \in DOMAIN ns : contains(bounds(ps[k], ns[k].kind), world_pos)}

\* what a frame reads from the pointer: response.drag_delta(), the sign of
\* raw_scroll_delta.y, and the pointer position (hover_pos / interact_pos),
\* an Option: << >> is None, <<p>> is Some(p)
NoPointer == << >>
Some(p) == <<p>>
FrameInput(delta, scroll, pointer) ==
    [delta |-> delta, scroll |-> scroll, pointer |-> pointer]
\* the pointer rests at the centre and the wheel is still
Still == FrameInput(ZERO, 0, Some(center))
\* the canvas event of a frame: what the response reported, the node the
\* hit test resolved (clicked_id) if it ran, and what was read
PointerEvent(type, id, in) ==
    [type |-> type, id |-> id, delta |-> in.delta, scroll |-> in.scroll,
     pointer |-> in.pointer]
Moves(in) == IF in.delta # ZERO \/ in.scroll # 0 THEN 1 ELSE 0

\* pan (406): only while no node is being dragged
Pan(offset, zoom, dragging, dragged, delta) ==
    IF dragged /\ dragging = None THEN VSub(offset, VDiv(delta, zoom)) ELSE offset

\* mutant: only the lower limit is enforced
clamp_LowerOnly(x, lo, hi) == IF Less(x, lo) THEN lo ELSE x

\* f32::clamp and the limits of 412
clamp(x, lo, hi) == IF Less(x, lo) THEN lo ELSE IF Less(hi, x) THEN hi ELSE x
zoom_min == Frac(5, 100)
zoom_max == Num(5)
zoom_factor(scroll) == IF scroll > 0 THEN Frac(11, 10) ELSE Frac(9, 10)

\* mutant: the zoom changes about the canvas centre, the offset stays
ScrollZoom_KeepsOffset(offset0, zoom0, panned, in) ==
    IF in.scroll # 0 /\ in.pointer # NoPointer
    THEN [offset |-> panned,
          zoom |-> clamp(Mul(zoom0, zoom_factor(in.scroll)), zoom_min, zoom_max)]
    ELSE [offset |-> panned, zoom |-> zoom0]

\* scroll-to-zoom (407-417): offset0 and zoom0 are the locals taken at 400
\* and 401, which screen_to_world reads; panned is state.camera_offset after
\* 406.  A scroll without a hover position changes nothing.
ScrollZoom(offset0, zoom0, panned, in) ==
    IF in.scroll # 0 /\ in.pointer # NoPointer
    THEN LET pointer_pos == in.pointer[1]
             world_pos_before == screen_to_world(pointer_pos, offset0, zoom0)
             new_zoom == clamp(Mul(zoom0, zoom_factor(in.scroll)), zoom_min, zoom_max)
         IN [offset |-> VSub(world_pos_before, VDiv(VSub(pointer_pos, center), new_zoom)),
             zoom |-> new_zoom]
    ELSE [offset |-> panned, zoom |-> zoom0]

\* the camera after 406-417 of a frame whose response is or is not dragged
Camera(dragged, in) ==
    ScrollZoom(camera_offset, camera_zoom,
               Pan(camera_offset, camera_zoom, dragging_node, dragged, in.delta), in)

\* drag move (441): the delta, scaled by the zoom local, goes to the node
\* that dragging_node names after 419-440, if the map has it
MoveNode(ps, id, delta, zoom) ==
    IF id # None /\ id \in DOMAIN ps
    THEN [ps EXCEPT ![id] = VAdd(@, VDiv(delta, zoom))]
    ELSE ps

\* no pointer event on the canvas and no node button clicked
CanvasIdle ==
    /\ pc = "canvas"
    /\ input' = NoEvent
    /\ EndFrame
    /\ UNCHANGED <<graph, http_chan, inflight, drag_active, history, fatal>>

\* the wheel turns while no gesture is in progress (407-417)
Scroll(in) ==
    /\ Free /\ ~drag_active
    /\ in.delta = ZERO /\ in.scroll # 0
    /\ canvas_inputs < MaxInputs
    /\ LET c == Camera(FALSE, in) IN
         /\ camera_offset' = c.offset
         /\ camera_zoom' = c.zoom
    /\ canvas_inputs' = canvas_inputs + 1
    /\ input' = PointerEvent("scroll", None, in)
    /\ EndFrame
    /\ UNCHANGED <<nodes, position, velocity, edges, next_id, dragging_node,
                   linking_from, http_chan, inflight, drag_active, next_op,
                   sent, applied, frame_applied, physics_steps, fatal>>

\* the drag-start loop (423-429) over a map whose nodes in hit contain the
\* pointer: every node of hit is selected, every other node deselected
SelectHit(ns, hit) == [k \in DOMAIN ns |-> [ns[k] EXCEPT !.selected = (k \in hit)]]

\* mutant: the click on the link's own source is not told apart
LinkClick_AllowsSelf(es, next, from_id, clicked) ==
    IF from_id # None /\ clicked # None
    THEN [edges |-> Append(es, [id |-> next, from |-> from_id, to |-> clicked]),
          next_id |-> next + 1, linking_from |-> None]
    ELSE [edges |-> es, next_id |-> next, linking_from |-> from_id]

\* mutant: the new edge takes its id from the length of the edge list
LinkClick_IdFromLength(es, next, from_id, clicked) ==
    IF from_id # None /\ clicked # None
    THEN IF from_id # clicked
         THEN [edges |-> Append(es, [id |-> Len(es), from |-> from_id, to |-> clicked]),
               next_id |-> next + 1, linking_from |-> None]
         ELSE [edges |-> es, next_id |-> next, linking_from |-> None]
    ELSE [edges |-> es, next_id |-> next, linking_from |-> from_id]

\* mutant: a pointer-down on empty canvas gives the pending link up
LinkClick_MissCancels(es, next, from_id, clicked) ==
    IF from_id # None /\ clicked # None
    THEN IF from_id # clicked
         THEN [edges |-> Append(es, [id |-> next, from |-> from_id, to |-> clicked]),
               next_id |-> next + 1, linking_from |-> None]
         ELSE [edges |-> es, next_id |-> next, linking_from |-> None]
    ELSE [edges |-> es, next_id |-> next, linking_from |-> None]

\* the linking click (430-436): edges, next_id and linking_from after a drag
\* start that resolved to clicked (None when no node was hit)
LinkClick(es, next, from_id, clicked) ==
    IF from_id # None /\ clicked # None
    THEN IF from_id # clicked
         THEN [edges |-> Append(es, [id |-> next, from |-> from_id, to |-> clicked]),
               next_id |-> next + 1, linking_from |-> None]
         ELSE [edges |-> es, next_id |-> next, linking_from |-> None]
    ELSE [edges |-> es, next_id |-> next, linking_from |-> from_id]

\* response.drag_started() (406-441): the response is dragged in this frame
\* too, so the pan of 406 runs before dragging_node is set.  hit is the set
\* of nodes whose bounds contain the pointer; clicked_id and dragging_node end
\* as the last of them in the map's iteration order, which is arbitrary
DragStarted(hit, clicked, in) ==
    /\ Free /\ ~drag_active
    /\ in.pointer # NoPointer
    /\ hit \subseteq DOMAIN nodes
    /\ IF hit = {} THEN clicked = None ELSE clicked \in hit
    /\ canvas_inputs + Moves(in) <= MaxInputs
    /\ LET r == LinkClick(edges, next_id, linking_from, clicked)
           c == Camera(TRUE, in)
           dragging == IF clicked # None THEN clicked ELSE dragging_node
       IN
         /\ r.next_id <= MaxNextId
         /\ camera_offset' = c.offset
         /\ camera_zoom' = c.zoom
         /\ nodes' = SelectHit(nodes, hit)
         /\ dragging_node' = dragging
         /\ edges' = r.edges
         /\ next_id' = r.next_id
         /\ linking_from' = r.linking_from
         /\ position' = MoveNode(position, dragging, in.delta, camera_zoom)
    /\ drag_active' = TRUE
    /\ canvas_inputs' = canvas_inputs + Moves(in)
    /\ input' = PointerEvent("drag_started", clicked, in)
    /\ EndFrame
    /\ UNCHANGED <<velocity, http_chan, inflight, next_op, sent, applied,
                   frame_applied, physics_steps, fatal>>

\* response.dragged() in a later frame of the gesture (406-417, 441): the
\* camera or the position of dragging_node moves
Dragged(in) ==
    /\ Free /\ drag_active
    /\ in.pointer # NoPointer
    /\ canvas_inputs + Moves(in) <= MaxInputs
    /\ LET c == Camera(TRUE, in) IN
         /\ camera_offset' = c.offset
         /\ camera_zoom' = c.zoom
    /\ position' = MoveNode(position, dragging_node, in.delta, camera_zoom)
    /\ canvas_inputs' = canvas_inputs + Moves(in)
    /\ input' = PointerEvent("dragged", None, in)
    /\ EndFrame
    /\ UNCHANGED <<nodes, velocity, edges, next_id, dragging_node,
                   linking_from, http_chan, inflight, drag_active, next_op,
                   sent, applied, frame_applied, physics_steps, fatal>>

\* mutant: the end of the gesture leaves the drag target in place
DragStopped_KeepsTarget(in) ==
    /\ Free /\ drag_active
    /\ in.delta = ZERO
    /\ canvas_inputs + Moves(in) <= MaxInputs
    /\ LET c == Camera(FALSE, in) IN
         /\ camera_offset' = c.offset
         /\ camera_zoom' = c.zoom
    /\ drag_active' = FALSE
    /\ canvas_inputs' = canvas_inputs + Moves(in)
    /\ input' = PointerEvent("drag_stopped", None, in)
    /\ EndFrame
    /\ UNCHANGED <<nodes, position, velocity, edges, next_id, dragging_node,
                   linking_from, http_chan, inflight, next_op, sent, applied,
                   frame_applied, physics_steps, fatal>>

\* response.drag_stopped() (440): the response is no longer dragged, so there
\* is no pan and drag_delta() is zero; the wheel may turn
DragStopped(in) ==
    /\ Free /\ drag_active
    /\ in.delta = ZERO
    /\ canvas_inputs + Moves(in) <= MaxInputs
    /\ LET c == Camera(FALSE, in) IN
         /\ camera_offset' = c.offset
         /\ camera_zoom' = c.zoom
    /\ dragging_node' = None
    /\ drag_active' = FALSE
    /\ canvas_inputs' = canvas_inputs + Moves(in)
    /\ input' = PointerEvent("drag_stopped", None, in)
    /\ EndFrame
    /\ UNCHANGED <<nodes, position, velocity, edges, next_id, linking_from,
                   http_chan, inflight, next_op, sent, applied, frame_applied,
                   physics_steps, fatal>>

\* which button starts a remote operation on a node, and whether the widget
\* code shows it: Search (486-490) only when not loading and without a result,
\* Generate of AgnosticAI (509) and of Visual (532) always, Generate PDF
\* Report (554-555) only when not loading
ButtonShown(n) ==
    CASE n.kind = "YouComResearch" -> ~n.is_loading /\ n.result = NoResult
      [] n.kind = "AgnosticAI"     -> TRUE
      [] n.kind = "Visual"         -> TRUE
      [] n.kind = "FoxitExport"    -> ~n.is_loading
      [] OTHER                     -> FALSE

\* the message variant the callback of the node's trigger_* sends (183, 195,
\* 207, 219)
ReplyVariant(kind) == IF kind = "Visual" THEN "ImageResponse" ELSE "TextResponse"

\* a trigger button of node id is clicked: the widget sets is_loading on the
\* clone, the clone is written back (561) and the fetch is started (562-564,
\* 576)
ClickTrigger(id) ==
    /\ Free /\ ~drag_active
    /\ id \in DOMAIN nodes
    /\ ButtonShown(nodes[id])
    /\ next_op <= MaxOps
    /\ nodes' = [nodes EXCEPT ![id].is_loading = TRUE]
    /\ inflight' = inflight \cup
         {[op |-> next_op, node |-> id, variant |-> ReplyVariant(nodes[id].kind)]}
    /\ next_op' = next_op + 1
    /\ input' = NoEvent
    /\ EndFrame
    /\ UNCHANGED <<position, velocity, camera, edges, next_id, dragging_node,
                   linking_from, http_chan, drag_active, canvas_inputs, sent,
                   applied, frame_applied, physics_steps, fatal>>

\* ------------------------------------------------------- specification
\* the steps of a frame that every run takes
FrameSkeleton ==
    \/ SidebarIdle
    \/ DrainEmpty
    \/ ApplyPhysics
    \/ CanvasIdle

\* editing the graph: add (a node of one of kinds), delete, clear, link mode,
\* drag gestures
Editing(kinds) ==
    \/ \E kind \in kinds : AddNode(kind)
    \/ \E id \in DOMAIN nodes : DeleteNode(id)
    \/ CreateLink
    \/ CancelLinking
    \/ ClearCanvas
    \/ /\ pc = "canvas" /\ ~drag_active
       /\ \E hit \in {h \in SUBSET DOMAIN nodes : Cardinality(h) <= MaxHit} :
            \E clicked \in hit \cup {None} : DragStarted(hit, clicked, Still)
    \/ Dragged(Still)
    \/ DragStopped(Still)

\* nodes disappear by delete or clear
Removing ==
    \/ \E id \in DOMAIN nodes : DeleteNode(id)
    \/ ClearCanvas

\* remote operations: trigger, callback, delivery
Remote ==
    \/ \E id \in DOMAIN nodes : ClickTrigger(id)
    \/ DrainRecv
    \/ \E f \in inflight : \E body \in Texts \cup ImageBytes : FetchOk(f, body)
    \/ \E f \in inflight : FetchErr(f)

\* the pointer positions, drag deltas and wheel turns a frame can bring
Pointers == {center, Vec(900, 675)}
Deltas == {ZERO, Vec(30, -20)}
Wheel == {-1, 0, 1}

\* the nodes under the pointer of a frame: the hit test reads the camera
\* through the locals of 400-401 (420, 424)
UnderPointer(p) ==
    NodesAt(nodes, position, screen_to_world(p, camera_offset, camera_zoom))

\* moving over the canvas: wheel and drag gestures, with the hit test computed
\* from the positions
Pointing ==
    \/ \E scroll \in Wheel : \E pointer \in {NoPointer} \cup {Some(p) : p \in Pointers} :
           Scroll(FrameInput(ZERO, scroll, pointer))
    \/ pc = "canvas" /\ \E p \in Pointers :
           LET hit == UnderPointer(p) IN
             \E clicked \in hit \cup {None} : \E delta \in Deltas : \E scroll \in Wheel :
                DragStarted(hit, clicked, FrameInput(delta, scroll, Some(p)))
    \/ \E delta \in Deltas : \E scroll \in Wheel : \E p \in Pointers :
           Dragged(FrameInput(delta, scroll, Some(p)))
    \/ \E scroll \in Wheel : \E p \in Pointers :
           DragStopped(FrameInput(ZERO, scroll, Some(p)))

\* the whole program
Next ==
    \/ FrameSkeleton \/ Editing(SidebarKinds) \/ Remote \/ Pointing
    \/ \E id \in DOMAIN nodes : FocusNode(id)
Spec == Init /\ [][Next]_vars

\* the program while no remote operation is triggered; without operations a
\* node's kind decides nothing, and the nodes added are of one kind
GraphKinds == {"Concept"}
NextGraph == FrameSkeleton \/ Editing(GraphKinds)
SpecGraph == Init /\ [][NextGraph]_vars

\* the program while the user only deletes, clears and triggers operations
NextOps == FrameSkeleton \/ Removing \/ Remote
SpecOps == Init /\ [][NextOps]_vars

\* the program while the user only triggers operations, and the thread that
\* runs update never stops: every frame ends by requesting the next one (582)
NextTrigger == FrameSkeleton \/ Remote
UIThread ==
    \/ FrameSkeleton
    \/ \E id \in DOMAIN nodes : ClickTrigger(id)
    \/ DrainRecv
FairSpecTrigger == Init /\ [][NextTrigger]_vars /\ WF_vars(UIThread)

\* ------------------------------------------------ pointer and camera
\* The program while the user pans, zooms and drags.  The zoom starts at 1.0
\* (130); seventeen turns of the wheel up bring it to zoom_max and twenty-nine
\* turns down to zoom_min, and a run starts from one of the three.
ZoomStarts == {zoom_min, Num(1), zoom_max}

InitCanvas ==
    /\ nodes = DemoNodes
    /\ position = DemoPositions
    /\ velocity = [k \in 1..5 |-> ZERO]
    /\ camera_offset = ZERO
    /\ camera_zoom \in ZoomStarts
    /\ edges = DemoEdges
    /\ next_id = 6
    /\ dragging_node = None
    /\ linking_from = None
    /\ http_chan = << >>
    /\ inflight = {}
    /\ pc = "sidebar"
    /\ drag_active = FALSE
    /\ input = NoEvent
    /\ integrated = {}
    /\ canvas_inputs = 0
    /\ physics_steps = 0
    /\ fatal = FALSE
    /\ next_op = 1
    /\ sent = << >>
    /\ applied = << >>
    /\ frame_applied = 0

NextCanvas == FrameSkeleton \/ Pointing
SpecCanvas == InitCanvas /\ [][NextCanvas]_vars

\* ------------------------------------------- delivery of any message
\* The arms of the drain loop over every AppMessage value (69-73), the Error
\* variant included, which no callback of this file sends: the channel starts
\* with up to MaxChan arbitrary messages, some for ids that are not in the map
\* (6 was never assigned), and one drain loop runs.
PreviousResult(kind) ==
    CASE kind = "Concept" -> NoResult
      [] kind = "Visual"  -> "tex_old"
      [] OTHER            -> "t0"

AnyMessage ==
    {Message("TextResponse", id, text, 0) : id \in 1..6, text \in Texts}
    \cup {Message("ImageResponse", id, bytes, 0) : id \in 1..6, bytes \in ImageBytes}
    \cup {Message("Error", id, "timeout", 0) : id \in 1..6}

InitDeliver ==
    /\ \E present \in {1..5, 3..5} : \E loading, stored \in BOOLEAN :
         /\ nodes = [k \in present |->
                       [DemoNodes[k] EXCEPT
                          !.is_loading = loading /\ k # 1,
                          !.result = IF stored THEN PreviousResult(DemoNodes[k].kind)
                                     ELSE @]]
         /\ position = [k \in present |-> DemoPositions[k]]
         /\ velocity = [k \in present |-> ZERO]
    /\ camera_offset = ZERO
    /\ camera_zoom = Num(1)
    /\ edges = RetainEdges(RetainEdges(DemoEdges, 1), 2)
    /\ next_id = 6
    /\ dragging_node = None
    /\ linking_from = None
    /\ \E n \in 1..MaxChan : \E q \in [1..n -> AnyMessage] :
         /\ http_chan = [i \in 1..n |-> [q[i] EXCEPT !.op = i]]
         /\ sent = http_chan
         /\ next_op = n + 1
    /\ inflight = {}
    /\ pc = "drain"
    /\ drag_active = FALSE
    /\ input = NoEvent
    /\ integrated = {}
    /\ canvas_inputs = 0
    /\ physics_steps = 0
    /\ fatal = FALSE
    /\ applied = << >>
    /\ frame_applied = 0

NextDeliver == DrainRecv \/ DrainEmpty
SpecDeliver == InitDeliver /\ [][NextDeliver]_vars

\* ================================================================ claims

\* C1: every edge of the edge list has its from id and its to id among the
\* keys of the node map, in every reachable state.
C1_EdgesReferencePresentNodes ==
    \A i \in 1..Len(edges) :
        edges[i].from \in DOMAIN nodes /\ edges[i].to \in DOMAIN nodes

\* C2: dragging_node and linking_from are each None or the id of a node that
\* is in the node map, in every reachable state.
C2_NoDanglingInteraction ==
    /\ dragging_node = None \/ dragging_node \in DOMAIN nodes
    /\ linking_from = None \/ linking_from \in DOMAIN nodes

\* C3: a trigger on a node whose is_loading is true dispatches nothing.
C3_NoDispatchWhilePending ==
    [][\A n \in DOMAIN nodes :
         nodes[n].is_loading => \A f \in inflight' \ inflight : f.node # n]_vars

\* C4: every dispatched operation whose callback has run has sent exactly one
\* message, whether the fetch succeeded or failed.
C4_EveryDispatchSendsOneMessage ==
    \A o \in 1..(next_op - 1) :
        \/ \E f \in inflight : f.op = o
        \/ Cardinality({i \in 1..Len(sent) : sent[i].op = o}) = 1

\* the drain loop receives a message in this step: the head of the channel
Drains == frame_applied' = frame_applied + 1
Drained == Head(http_chan)

\* C5: draining Error(N, reason) for a node N of the map sets N's is_loading to
\* false and changes no other field of N and no other node.
C5_FailureClearsPendingOnly ==
    [][(Drains /\ Drained.variant = "Error" /\ Drained.id \in DOMAIN nodes) =>
         LET id == Drained.id IN
           /\ DOMAIN nodes' = DOMAIN nodes
           /\ nodes'[id].is_loading = FALSE
           /\ nodes'[id].result = nodes[id].result
           /\ nodes'[id].kind = nodes[id].kind
           /\ nodes'[id].selected = nodes[id].selected
           /\ \A k \in DOMAIN nodes \ {id} : nodes'[k] = nodes[k]
           /\ UNCHANGED <<edges, next_id, dragging_node, linking_from>>]_vars

\* a failure for the pending AgnosticAI node 3, which had a result, was
\* drained: the result is still there, and node 4 is still pending
C5_Witness ==
    /\ Len(applied) = 1
    /\ applied[1].variant = "Error" /\ applied[1].id = 3
    /\ 3 \in DOMAIN nodes /\ 4 \in DOMAIN nodes
    /\ ~nodes[3].is_loading /\ nodes[3].result = "t0"
    /\ nodes[4].is_loading

\* C6: draining a message of any variant whose id is not a key of the node map
\* changes nothing in CanvasState, the loop goes on with the messages behind
\* it, and the loop is left only when every message has been drained.
C6_StaleMessageDropped ==
    /\ [][(Drains /\ Drained.id \notin DOMAIN nodes) =>
            /\ UNCHANGED graph
            /\ pc' = "drain"
            /\ http_chan' = Tail(http_chan)]_vars
    /\ [](pc # "drain" => applied = sent)

\* a message for a missing id was drained and the one behind it was applied
\* in the same loop
C6_Witness ==
    /\ pc = "drain" /\ Len(applied) = 2
    /\ applied[1].id \notin DOMAIN nodes
    /\ applied[2].id = 3 /\ 3 \in DOMAIN nodes
    /\ applied[2].variant = "TextResponse"
    /\ nodes[3].result = applied[2].payload

\* a TextResponse for a research, AgnosticAI or export node, or an
\* ImageResponse for a visual node, of the map
Success(msg) ==
    /\ msg.id \in DOMAIN nodes
    /\ \/ /\ msg.variant = "TextResponse"
          /\ nodes[msg.id].kind \in {"YouComResearch", "AgnosticAI", "FoxitExport"}
       \/ /\ msg.variant = "ImageResponse"
          /\ nodes[msg.id].kind = "Visual"

\* C7 as stated: after a success message for a node N of the map is drained,
\* N is not pending, N's stored result is the delivered payload (the text, or
\* the image the bytes hold), and no other node is modified.
C7_SuccessStoresPayload ==
    [][(Drains /\ Success(Drained)) =>
         LET id == Drained.id IN
           /\ DOMAIN nodes' = DOMAIN nodes
           /\ nodes'[id].is_loading = FALSE
           /\ nodes'[id].result = IF Drained.variant = "TextResponse"
                                  THEN Drained.payload
                                  ELSE load_from_memory(Drained.payload)
           /\ \A k \in DOMAIN nodes \ {id} : nodes'[k] = nodes[k]]_vars

\* C7 amended: as C7, except that an ImageResponse whose bytes do not decode
\* as an image leaves the texture as it was.
C7_SuccessStoresDecodablePayload ==
    [][(Drains /\ Success(Drained)) =>
         LET id == Drained.id IN
           /\ DOMAIN nodes' = DOMAIN nodes
           /\ nodes'[id].is_loading = FALSE
           /\ nodes'[id].result =
                IF Drained.variant = "TextResponse" THEN Drained.payload
                ELSE IF load_from_memory(Drained.payload) # "Err"
                     THEN load_from_memory(Drained.payload)
                     ELSE nodes[id].result
           /\ nodes'[id].kind = nodes[id].kind
           /\ nodes'[id].selected = nodes[id].selected
           /\ \A k \in DOMAIN nodes \ {id} : nodes'[k] = nodes[k]]_vars

\* a text was stored in node 3 and bytes that do not decode were drained for
\* the visual node 4, which lost its pending flag and kept its empty texture
C7_Witness ==
    /\ Len(applied) = 2
    /\ applied[1].variant = "TextResponse" /\ applied[1].id = 3
    /\ applied[2].variant = "ImageResponse" /\ applied[2].id = 4
    /\ applied[2].payload = "junk"
    /\ 3 \in DOMAIN nodes /\ 4 \in DOMAIN nodes
    /\ nodes[3].result = applied[1].payload /\ ~nodes[3].is_loading
    /\ nodes[4].result = NoResult /\ ~nodes[4].is_loading

C9_DrainNeverBlocksNorLoses ==
    /\ []((pc = "drain" /\ http_chan = << >>) => ENABLED DrainEmpty)
    /\ [][(pc = "drain" /\ pc' # "drain") => http_chan = << >>]_vars
    /\ [][\A i \in 1..Len(http_chan) :
            http_chan[i] \in Range(http_chan') \/ (Drains /\ i = 1)]_vars
    /\ \A o \in 1..MaxOps :
         (\E i \in 1..Len(sent) : sent[i].op = o)
            ~> (\E i \in 1..Len(applied) : applied[i].op = o)

\* the frame went on past the drain loop while a fetch was still running, and
\* a message has arrived since
C9_Witness ==
    /\ pc = "canvas"
    /\ inflight # {}
    /\ http_chan # << >>

\* C10: the drained messages are, in order, the first messages sent: none is
\* applied twice and none overtakes an older one.
C10_AppliedOnceInSendOrder ==
    /\ Len(applied) <= Len(sent)
    /\ \A i \in 1..Len(applied) : applied[i] = sent[i]
    /\ \A i, j \in 1..Len(applied) : i # j => applied[i].op # applied[j].op

\* the second operation's message was sent before the first one's and one
\* drain loop applied both, in that order
C10_Witness ==
    /\ pc = "drain" /\ frame_applied = 2 /\ http_chan = << >>
    /\ applied[1].op = 2 /\ applied[2].op = 1

\* editing, linking, pointer gestures and remote operations together, on
\* the demo scene: the buttons and the pointer act on the nodes of Touched
\* (a research node and an AI node joined by an edge), every reply body is
\* the same text, and the nodes added are of one kind
Touched == {2, 3}
Reply == "t1"
NextSession ==
    \/ FrameSkeleton
    \/ AddNode("Concept")
    \/ \E id \in Touched : DeleteNode(id)
    \/ ClearCanvas
    \/ CreateLink
    \/ CancelLinking
    \/ /\ pc = "canvas" /\ ~drag_active
       /\ \E clicked \in (Touched \cap DOMAIN nodes) \cup {None} :
            DragStarted(IF clicked = None THEN {} ELSE {clicked}, clicked, Still)
    \/ DragStopped(Still)
    \/ \E id \in Touched : ClickTrigger(id)
    \/ DrainRecv
    \/ \E f \in inflight : FetchOk(f, Reply)
    \/ \E f \in inflight : FetchErr(f)
SpecSession == Init /\ [][NextSession]_vars

\* apply_physics on small scenes: node 1 at the origin, node 2 at one of
\* Seconds, a third node opposite to node 2 across node 1, with
\* and without edges (one of them from a node that may be absent), with and
\* without a drag target, at rest or with node 1 moving along the line
Seconds ==
    {Vec(0, 0), Vec(10, 0), Vec(30, 40), Vec(250, 0), Vec(400, 0), Vec(402, 0),
     Vec(1000, 0)}
SceneEdges ==
    { << >>,
      << [id |-> 1, from |-> 1, to |-> 2] >>,
      << [id |-> 1, from |-> 2, to |-> 1] >>,
      << [id |-> 1, from |-> 1, to |-> 2], [id |-> 2, from |-> 3, to |-> 2] >> }
InitPhysics ==
    /\ \E ids \in {1..2, 1..3} : \E p2 \in Seconds : \E moving \in BOOLEAN :
         /\ nodes = [k \in ids |-> NodeNew("Concept")]
         /\ position = [k \in ids |-> CASE k = 1 -> ZERO
                                        [] k = 2 -> p2
                                        [] k = 3 -> VSub(ZERO, p2)]
         /\ velocity = [k \in ids |->
                          IF k = 1 /\ moving
                          THEN IF p2 = ZERO THEN Vec(5, 0) ELSE VDiv(p2, Num(10))
                          ELSE ZERO]
    /\ edges \in SceneEdges
    /\ dragging_node \in {None, 1, 2}
    /\ drag_active = (dragging_node # None)
    /\ camera_offset = ZERO
    /\ camera_zoom = Num(1)
    /\ next_id = 4
    /\ linking_from = None
    /\ http_chan = << >>
    /\ inflight = {}
    /\ pc = "sidebar"
    /\ input = NoEvent
    /\ integrated = {}
    /\ canvas_inputs = 0
    /\ physics_steps = 0
    /\ fatal = FALSE
    /\ next_op = 1
    /\ sent = << >>
    /\ applied = << >>
    /\ frame_applied = 0
NextPhysics == SidebarIdle \/ DrainEmpty \/ PhysicsStep \/ CanvasIdle
SpecPhysics == InitPhysics /\ [][NextPhysics]_vars

\* C11: no node ever carries an id that the counter has not passed; the
\* counter never decreases; and a node that enters the map gets the counter's
\* value, after which the counter is greater.  Hence every new id is greater
\* than every id given before, also those of nodes deleted or cleared since.
C11_IdsNeverReused ==
    /\ [](\A k \in DOMAIN nodes : k < next_id)
    /\ [][next_id' >= next_id]_vars
    /\ [][\A k \in DOMAIN nodes' \ DOMAIN nodes : k = next_id /\ next_id' > k]_vars

\* the canvas was cleared and a node was added after that: it is node 6
C11_Witness ==
    /\ DOMAIN nodes = {6}
    /\ next_id = 7
    /\ input = Event("add", 6)

\* the step is the canvas part of a frame, and what it read from the pointer
CanvasStep == pc = "canvas" /\ pc' = "sidebar"
PointerTypes == {"scroll", "drag_started", "dragged", "drag_stopped"}
Scrolls == CanvasStep /\ input'.type \in PointerTypes /\ input'.scroll # 0
Scaled(zoom, scroll) ==
    LET z == Mul(zoom, IF scroll > 0 THEN Frac(11, 10) ELSE Frac(9, 10)) IN
      IF Less(z, Frac(5, 100)) THEN Frac(5, 100)
      ELSE IF Less(Num(5), z) THEN Num(5) ELSE z

\* C12 as stated: the zoom is in [0.05, 5.0] in every reachable state; every
\* scroll input sets it to the old zoom times 1.1 (up) or 0.9 (down), clamped
\* to that range; no other step changes it.
C12_ZoomClampedEveryScroll ==
    /\ [](Leq(Frac(5, 100), camera_zoom) /\ Leq(camera_zoom, Num(5)))
    /\ [][Scrolls => camera_zoom' = Scaled(camera_zoom, input'.scroll)]_vars
    /\ [][~Scrolls => camera_zoom' = camera_zoom]_vars

\* C12 amended: as C12, for the scroll inputs that come with a pointer
\* position; a scroll input without one leaves the zoom as it is.
C12_ZoomClampedScrollAtPointer ==
    /\ [](Leq(Frac(5, 100), camera_zoom) /\ Leq(camera_zoom, Num(5)))
    /\ [][(Scrolls /\ input'.pointer # << >>) =>
            camera_zoom' = Scaled(camera_zoom, input'.scroll)]_vars
    /\ [][(Scrolls /\ input'.pointer = << >>) => camera_zoom' = camera_zoom]_vars
    /\ [][~Scrolls => camera_zoom' = camera_zoom]_vars

\* from zoom 5.0 the wheel was turned up at a pointer position: 5.5 was
\* clamped back to 5.0
C12_Witness ==
    /\ input.type = "scroll" /\ input.scroll = 1 /\ input.pointer # << >>
    /\ canvas_inputs = 1
    /\ camera_zoom = Num(5)

\* C13: when a frame zooms at the pointer position s, the world point that
\* was under s when the frame began is under s when it ends, whatever the
\* offset and zoom and whether the response is idle, panning or dragging a
\* node; if s is the canvas centre, the offset at the end is the offset at
\* the beginning.
C13_ZoomKeepsPointUnderCursor ==
    [][(Scrolls /\ input'.pointer # << >>) =>
         LET s == input'.pointer[1]
             w == screen_to_world(s, camera_offset, camera_zoom)
         IN /\ world_to_screen(w, camera_offset', camera_zoom') = s
            /\ (s = Vec(700, 400) => camera_offset' = camera_offset)]_vars

\* at zoom 0.05 the wheel was turned up away from the centre while a drag on
\* empty space was moving the pointer: the zoom grew and the offset moved
C13_Witness ==
    /\ input.type = "dragged" /\ dragging_node = 0
    /\ input.scroll = 1 /\ input.delta # Vec(0, 0)
    /\ input.pointer = <<Vec(900, 675)>>
    /\ camera_zoom = Frac(11, 200)
    /\ camera_offset # Vec(0, 0)

\* C14: with the camera that the canvas part of any frame builds the two
\* closures from (400-404), screen_to_world undoes world_to_screen on world
\* points (the corners of every node) and world_to_screen undoes
\* screen_to_world on screen points (the pointer positions and the window's
\* origin).
C14_TransformsAreInverse ==
    pc = "canvas" =>
      /\ \A k \in DOMAIN nodes :
           \A p \in {position[k], VAdd(position[k], Size(nodes[k].kind))} :
              screen_to_world(world_to_screen(p, camera_offset, camera_zoom),
                              camera_offset, camera_zoom) = p
      /\ \A q \in Pointers \cup {Vec(0, 0)} :
           world_to_screen(screen_to_world(q, camera_offset, camera_zoom),
                           camera_offset, camera_zoom) = q

\* the camera has been zoomed away from 1.0 and moved off the origin, and a
\* node has been dragged to a position that is not a whole number
C14_Witness ==
    /\ pc = "canvas"
    /\ camera_zoom # Num(1) /\ camera_offset # Vec(0, 0)
    /\ \E k \in DOMAIN nodes : position[k][1][2] # 1

\* C15: at the end of a frame in which a drag gesture began over a node, the
\* selected nodes are exactly the one node that dragging_node names.
C15_DragStartSelectsOnlyTarget ==
    (input.type = "drag_started" /\ input.id # 0) =>
        /\ dragging_node = input.id
        /\ \A k \in DOMAIN nodes : nodes[k].selected <=> k = dragging_node

\* the nodes whose rectangle from position to position + size holds the world
\* point w, in the state the step starts from
Holding(w) ==
    {k \in DOMAIN nodes :
        LET far == VAdd(position[k], Size(nodes[k].kind)) IN
          /\ Leq(position[k][1], w[1]) /\ Leq(w[1], far[1])
          /\ Leq(position[k][2], w[2]) /\ Leq(w[2], far[2])}

\* C16: the node a drag start resolves is none exactly when no node's bounds
\* contain the pointer's world point, and otherwise it is a node whose bounds
\* contain that point; this node becomes dragging_node.
C16_HitTestResolvesContainingNode ==
    [][(CanvasStep /\ input'.type = "drag_started") =>
         LET w == screen_to_world(input'.pointer[1], camera_offset, camera_zoom) IN
           /\ input'.id = 0 <=> Holding(w) = {}
           /\ input'.id # 0 => input'.id \in Holding(w) /\ dragging_node' = input'.id]_vars

\* a drag started at the screen point (900, 675), where the bounds of nodes
\* 3 and 5 overlap, and resolved node 5
C16_Witness ==
    /\ input.type = "drag_started" /\ input.id = 5
    /\ input.pointer = <<Vec(900, 675)>>
    /\ nodes[3].selected /\ nodes[5].selected
    /\ dragging_node = 5

\* the step is a frame of a drag gesture that began with no node under the
\* pointer
PanFrame ==
    /\ CanvasStep
    /\ \/ input'.type = "drag_started" /\ input'.id = 0
       \/ input'.type = "dragged" /\ dragging_node = 0

\* C17: in every frame of a gesture that began on empty space the camera
\* offset ends as the offset moved by minus delta / zoom, re-anchored by the
\* zoom-to-cursor rule if the wheel turned in that frame, and no node's
\* position changes.
C17_PanSubtractsDelta ==
    [][PanFrame =>
         LET panned == VSub(camera_offset, VDiv(input'.delta, camera_zoom))
             s == input'.pointer[1]
         IN /\ camera_offset' =
                  IF input'.scroll # 0
                  THEN VSub(screen_to_world(s, panned, camera_zoom),
                            VDiv(VSub(s, Vec(700, 400)), camera_zoom'))
                  ELSE panned
            /\ position' = position]_vars

\* the step is a frame of a drag gesture that began on a node
NodeDragFrame ==
    /\ CanvasStep
    /\ \/ input'.type = "drag_started" /\ input'.id # 0
       \/ input'.type = "dragged" /\ dragging_node # 0

\* C18: in every frame of a gesture that began on a node, the first frame
\* included, the position of dragging_node grows by delta / zoom, no other
\* node moves, and the camera offset ends where it would without the drag
\* delta (unchanged, or re-anchored by a zoom of the same frame).
C18_NodeDragMovesNodeOnly ==
    [][NodeDragFrame =>
         LET n == dragging_node'
             s == input'.pointer[1]
         IN /\ position'[n] = VAdd(position[n], VDiv(input'.delta, camera_zoom))
            /\ \A k \in DOMAIN position \ {n} : position'[k] = position[k]
            /\ camera_offset' =
                  IF input'.scroll # 0
                  THEN VSub(screen_to_world(s, camera_offset, camera_zoom),
                            VDiv(VSub(s, Vec(700, 400)), camera_zoom'))
                  ELSE camera_offset]_vars

\* C19: the frame in which a gesture ends leaves dragging_node None;
\* dragging_node is set only by a drag start, to the node that start resolved,
\* and is not None only while the gesture is in progress; and once no gesture
\* is in progress, apply_physics integrates every node of the map, the
\* released one included.
C19_DragEndClearsTarget ==
    /\ [][(drag_active /\ ~drag_active') => dragging_node' = None]_vars
    /\ [](dragging_node # None => drag_active)
    /\ [][(dragging_node' # dragging_node /\ dragging_node' # None) =>
            /\ CanvasStep /\ ~drag_active /\ drag_active'
            /\ input'.type = "drag_started" /\ input'.id = dragging_node']_vars
    /\ []((pc = "canvas" /\ ~drag_active) => integrated = DOMAIN nodes)

\* node 2 was dragged to a new place and released, and the physics step of
\* the frame after the release has integrated it
C19_Witness ==
    /\ pc = "canvas" /\ ~drag_active /\ dragging_node = None
    /\ nodes[2].selected
    /\ position[2] = VAdd(Vec(-150, -150), Vec(30, -20))
    /\ 2 \in integrated

\* the drag start of this frame resolved to a node while a link was pending
\* from another node
LinkingClick ==
    /\ CanvasStep /\ input'.type = "drag_started"
    /\ linking_from # None
    /\ input'.id # None /\ input'.id # linking_from

\* C20: while linking_from = S, a drag-start hit test that resolves to a node
\* T other than S appends exactly one edge from S to T whose id is the id of
\* no edge already in the list, adds one to next_id and sets linking_from to
\* None.
C20_LinkingClickAppendsFreshEdge ==
    [][LinkingClick =>
         /\ Len(edges') = Len(edges) + 1
         /\ SubSeq(edges', 1, Len(edges)) = edges
         /\ edges'[Len(edges')].from = linking_from
         /\ edges'[Len(edges')].to = input'.id
         /\ \A i \in 1..Len(edges) : edges[i].id # edges'[Len(edges')].id
         /\ next_id' = next_id + 1
         /\ linking_from' = None]_vars

\* a link from node 1 to node 3 was completed on the demo scene: the edge
\* list is the four seeded edges followed by the new one
C20_Witness ==
    /\ Len(edges) = 5
    /\ SubSeq(edges, 1, 4) = DemoEdges
    /\ edges[5].from = 1 /\ edges[5].to = 3
    /\ linking_from = None
    /\ input.type = "drag_started" /\ input.id = 3

\* the drag start of this frame resolved to the node the pending link starts
\* from, or "Cancel Linking" was clicked in this frame
SelfClickOrCancel ==
    /\ linking_from # None
    /\ \/ CanvasStep /\ input'.type = "drag_started" /\ input'.id = linking_from
       \/ pc = "sidebar" /\ input'.type = "cancel_link"

\* C21: while linking_from = S, a drag-start hit test that resolves to S, or
\* a click on "Cancel Linking", sets linking_from to None and leaves the edge
\* list as it was; and in every reachable state no edge has from = to.
C21_NoSelfLink ==
    /\ [][SelfClickOrCancel => linking_from' = None /\ edges' = edges]_vars
    /\ [](\A i \in 1..Len(edges) : edges[i].from # edges[i].to)

\* a link was pending from node 1 and the drag start of the last frame hit
\* node 1 itself: linking is over and the edge list is the seeded one
C21_Witness ==
    /\ input.type = "drag_started" /\ input.id = 1
    /\ dragging_node = 1 /\ nodes[1].selected
    /\ linking_from = None
    /\ edges = DemoEdges /\ next_id = 6

\* the step is a physics step whose forces are computed
PhysicsStepTaken == pc = "physics" /\ physics_steps' = physics_steps + 1

RECURSIVE PullOf(_, _, _, _, _)
\* what the edges from index i on that join n and k add to the force on k
PullOf(n, k, es, ps, i) ==
    IF i > Len(es) THEN ZERO
    ELSE LET rest == PullOf(n, k, es, ps, i + 1) IN
           IF es[i].from = k /\ es[i].to = n
           THEN VAdd(Spring(ps[k], ps[n]), rest)
           ELSE IF es[i].from = n /\ es[i].to = k
                THEN VSub(rest, Spring(ps[n], ps[k]))
                ELSE rest

\* C22: a physics step leaves the position and the velocity of the drag
\* target n as they were; and the force that moves any other node k is the
\* force k would get in the scene without n, plus the repulsion of n on k,
\* plus the pull of every edge between n and k.
C22_DragTargetHeldButExerts ==
    [][(PhysicsStepTaken /\ dragging_node \in DOMAIN nodes) =>
         LET n == dragging_node
             alone == Forces(Without(position, n), edges)
         IN /\ position'[n] = position[n]
            /\ velocity'[n] = velocity[n]
            /\ \A k \in DOMAIN nodes \ {n} :
                 LET force == VAdd(alone[k],
                                   VAdd(Repulsion(position[k], position[n]),
                                        PullOf(n, k, edges, position, 1)))
                 IN /\ velocity'[k] = VMul(VAdd(velocity[k], force), damping)
                    /\ position'[k] = VAdd(position[k], velocity'[k])]_vars

\* node 1 was the drag target, moving at (1, 0) when the step ran, with node
\* 2 at (10, 0) tied to it by an edge and node 3 at (-10, 0): node 1 is where
\* it was with the velocity it had, and the other two have been pushed away
C22_Witness ==
    /\ physics_steps = 1 /\ dragging_node = 1
    /\ position[1] = ZERO /\ velocity[1] = Vec(1, 0)
    /\ DOMAIN nodes = 1..3 /\ Len(edges) = 1
    /\ Less(Num(10), position[2][1]) /\ Less(position[3][1], Num(-10))

\* C23: when a physics step is about to run, for every two distinct nodes i
\* and j, whatever their distance, the repulsion added to the force on i
\* because of j is the negation of the one added to the force on j because
\* of i.
C23_RepulsionAntisymmetric ==
    (pc = "physics" /\ Computable) =>
      \A i, j \in DOMAIN nodes :
         i # j => Repulsion(position[i], position[j]) =
                  VSub(ZERO, Repulsion(position[j], position[i]))

\* a second step is about to run on a scene where nodes 2 and 3 coincide and
\* node 1 has moved off them, nearer than the floor, so that it is repelled
C23_Witness ==
    /\ pc = "physics" /\ physics_steps = 1
    /\ DOMAIN nodes = 1..3
    /\ position[2] = position[3] /\ position[1] # position[2]
    /\ Less(length(VSub(position[1], position[2])), dist_floor)
    /\ Repulsion(position[1], position[2]) # ZERO

\* the scene is two nodes joined by one edge, both at rest, neither dragged
PairAtRest ==
    /\ DOMAIN nodes = 1..2 /\ Len(edges) = 1
    /\ {edges[1].from, edges[1].to} = {1, 2}
    /\ velocity[1] = ZERO /\ velocity[2] = ZERO
    /\ dragging_node = None
Distance(ps) == length(VSub(ps[2], ps[1]))

\* C24: for two nodes joined by one edge, at rest, neither dragged, at a
\* distance that is not zero and is less than the rest length 400, one
\* physics step makes the distance strictly larger.
C24_ShortLinkIsPushedApart ==
    [][(PhysicsStepTaken /\ PairAtRest /\ Less(Num(0), Distance(position))
          /\ Less(Distance(position), rest_length)) =>
         Less(Distance(position), Distance(position'))]_vars

\* the claim's example: nodes at (0,0) and (10,0) with an edge from the
\* first to the second end at (-6.72, 0) and (16.72, 0) after one step
C24_Witness ==
    /\ physics_steps = 1 /\ dragging_node = None
    /\ DOMAIN nodes = 1..2
    /\ edges = << [id |-> 1, from |-> 1, to |-> 2] >>
    /\ position[1] = <<Frac(-168, 25), Num(0)>>
    /\ position[2] = <<Frac(418, 25), Num(0)>>

Dangling == {i \in 1..Len(edges) : ~({edges[i].from, edges[i].to} \subseteq DOMAIN nodes)}

\* C26: no frame meets an absent key in an index lookup or an unwrap, the
\* physics step of a scene with a dangling edge included; and a message for
\* a node id that is not in the map is taken off the channel and changes no
\* node.
C26_NoFatalLookup ==
    /\ [](~fatal)
    /\ [][(Drains /\ Drained.id \notin DOMAIN nodes) =>
             (nodes' = nodes /\ http_chan' = Tail(http_chan))]_vars

\* a message for a deleted node has been drained, an edge from a deleted
\* node has been linked, and the physics step of a later frame has run
C26_Witness ==
    /\ pc = "canvas" /\ Dangling # {}
    /\ \E i \in 1..Len(applied) : applied[i].id \notin DOMAIN nodes
    /\ ~fatal

\* C27: the drain loop hands over to the physics step only with the channel
\* empty, and when the physics step runs no input of the running frame has
\* changed the state yet: no sidebar button has been handled, and the canvas
\* input is handled after it.
C27_InputAfterPhysics ==
    /\ [][(pc = "drain" /\ pc' = "physics") => http_chan = << >>]_vars
    /\ [][(pc = "physics" /\ pc' = "canvas") => input = NoEvent]_vars
    /\ [][(input'.type \in PointerTypes /\ input' # input) =>
             pc = "canvas"]_vars

\* C28: the step that dispatches an operation for node N leaves N's
\* is_loading true in the state; and the is_loading of a node stays true over
\* every step that keeps the node and is not the drain of a message for it.
C28_PendingUntilOwnMessage ==
    /\ [][\A f \in inflight' \ inflight : nodes'[f.node].is_loading]_vars
    /\ [][\A n \in DOMAIN nodes \cap DOMAIN nodes' :
            (nodes[n].is_loading /\ ~(Drains /\ Drained.id = n)) =>
               nodes'[n].is_loading]_vars

\* node 2 was dispatched first and is still waiting; node 3 was dispatched
\* after it, and a message for node 3 has been drained since
C28_Witness ==
    /\ 2 \in DOMAIN nodes /\ nodes[2].is_loading
    /\ \E f \in inflight : f.node = 2 /\ f.op = 1
    /\ Len(applied) = 1 /\ applied[1].id = 3 /\ applied[1].op = 2

\* the node ids that operations under way or messages on the channel name
Awaited == {f.node : f \in inflight} \cup {http_chan[i].id : i \in 1..Len(http_chan)}

\* C29: draining a message changes no node but the one whose id it carries
\* and adds none; and a node that enters the map never takes an id that an
\* operation under way or a message on the channel names, so the node a
\* result reaches is the node that was dispatched.
C29_ResultReachesOnlyItsNode ==
    /\ [][Drains =>
            /\ DOMAIN nodes' = DOMAIN nodes
            /\ \A k \in DOMAIN nodes \ {Drained.id} : nodes'[k] = nodes[k]]_vars
    /\ [][\A k \in DOMAIN nodes' \ DOMAIN nodes : k \notin Awaited]_vars

\* the result for node 2 was drained after node 2 had been deleted and a
\* node had been added: the new node is as add_node made it
C29_Witness ==
    /\ \E i \in 1..Len(applied) :
         applied[i].id = 2 /\ applied[i].variant = "TextResponse"
    /\ 2 \notin DOMAIN nodes
    /\ 6 \in DOMAIN nodes /\ nodes[6] = NodeNew("Concept")

\* A session in which a link is pending while the canvas is used: from the
\* demo graph, the user selects a node by a pointer-down, presses "Create
\* Link" and "Cancel Linking", presses the pointer on a node or on empty
\* canvas, pans with an ongoing drag, turns the wheel, adds a node and triggers
\* node 3, whose result is delivered; the frames run their physics step.
Wheeled == FrameInput(ZERO, 1, Some(center))
Panned == FrameInput(Vec(30, -20), 0, Some(center))
Pressed == {3}
NextLinking ==
    \/ FrameSkeleton
    \/ AddNode("Concept")
    \/ CreateLink
    \/ CancelLinking
    \/ /\ pc = "canvas" /\ ~drag_active
       /\ \E clicked \in (Pressed \cap DOMAIN nodes) \cup {None} :
            DragStarted(IF clicked = None THEN {} ELSE {clicked}, clicked, Still)
    \/ Dragged(Panned)
    \/ DragStopped(Still)
    \/ Scroll(Wheeled)
    \/ ClickTrigger(3)
    \/ DrainRecv
    \/ \E f \in inflight : FetchOk(f, Reply)
SpecLinking == Init /\ [][NextLinking]_vars

\* the steps that are none of the two ways out of linking mode: a pointer-down
\* on empty canvas, a drag frame (a pan when no node is held), a scroll, the
\* physics step, "+ Concept", and the delivery of a message
EmptyPress == CanvasStep /\ input'.type = "drag_started" /\ input'.id = None
Pans == CanvasStep /\ input'.type = "dragged"
Adds == pc = "sidebar" /\ input'.type = "add"
Bystander ==
    EmptyPress \/ Pans \/ Scrolls \/ pc = "physics" \/ Adds \/ Drains
NodePress == CanvasStep /\ input'.type = "drag_started" /\ input'.id # None
Cancels == pc = "sidebar" /\ input'.type = "cancel_link"

\* C30: while a link is pending, only a pointer-down that resolves to a node
\* and "Cancel Linking" change linking_from; a pointer-down on empty canvas, a
\* pan, a scroll, a physics step, a node addition and a message delivery leave
\* linking_from and the edge list as they were.
C30_LinkingEndsOnlyByHitOrCancel ==
    /\ [][(linking_from # None /\ linking_from' # linking_from)
            => (NodePress \/ Cancels)]_vars
    /\ [][(linking_from # None /\ Bystander)
            => (linking_from' = linking_from /\ edges' = edges)]_vars

\* node 3 was selected and made the source of a link; with the link pending
\* the pointer went down on empty canvas and the drag that followed panned the
\* camera; a node was added, the wheel was turned and a result was delivered
C30_Witness ==
    /\ linking_from = 3
    /\ input.type = "dragged" /\ drag_active /\ dragging_node = None
    /\ camera_offset # ZERO /\ camera_zoom # Num(1)
    /\ 6 \in DOMAIN nodes
    /\ Len(applied) >= 1
    /\ pc = "sidebar"

====
